---- MODULE Spec2Model ----
(***************************************************************************)
(* Option_Pricer: the pricing core (src/pricing.py) and the Calculate      *)
(* handler of the Streamlit front end (src/streamlit_App.py).              *)
(*                                                                         *)
(* Reals are fixed-point integers with ONE units per 1.0 (eight decimal    *)
(* places).  The library functions the code imports (np.log, np.sqrt,      *)
(* np.exp, norm.cdf, norm.pdf, round, brentq) are computed on that         *)
(* representation; every formula of the repository is translated term by   *)
(* term on top of them.                                                    *)
(***************************************************************************)
EXTENDS Integers, Sequences, FiniteSets, TLC

VARIABLES pc, frame, locals, result, brentqCalls, calls,
          appPc, form, appSigma, appIv, engineCalls, positions

vars == <<pc, frame, locals, result, brentqCalls, calls,
          appPc, form, appSigma, appIv, engineCalls, positions>>

(***************************************************************************)
(* Fixed-point arithmetic standing for IEEE doubles                        *)
(***************************************************************************)
ONE == 100000000

HALFW == 10000

\* magnitude from which norm.cdf and norm.pdf are saturated (Phi(8) = 1 and
\* phi(8) = 0 at eight decimals); quotients are saturated there, as +-inf
DMAX == 8 * ONE

Abs(a) == IF a >= 0 THEN a ELSE -a

Sgn(a) == IF a < 0 THEN -1 ELSE 1

\* a * b on non-negative operands, split in half words so that no
\* intermediate product leaves the 32-bit range
MulU(a, b) ==
  LET ah == a \div HALFW
      al == a % HALFW
      bh == b \div HALFW
      bl == b % HALFW
  IN  ah * bh + ((ah * bl + al * bh + ((al * bl) \div HALFW)) \div HALFW)

Mul(a, b) == Sgn(a) * Sgn(b) * MulU(Abs(a), Abs(b))

RECURSIVE DivDigits(_, _, _, _)
DivDigits(rem, b, n, acc) ==
  IF n = 0 THEN acc
  ELSE DivDigits((rem * 10) % b, b, n - 1, acc * 10 + ((rem * 10) \div b))

\* a / b on a >= 0, b > 0 by long division, saturated at DMAX
DivU(a, b) ==
  IF a \div b >= 8 THEN DMAX
  ELSE (a \div b) * ONE + DivDigits(a % b, b, 8, 0)

\* a / b for b # 0
Div(a, b) == Sgn(a) * Sgn(b) * DivU(Abs(a), Abs(b))

RECURSIVE SqrtIter(_, _, _)
SqrtIter(x, s, n) ==
  LET t == (s + DivU(x, s)) \div 2
  IN  IF n = 0 \/ t = s THEN s ELSE SqrtIter(x, t, n - 1)

\* np.sqrt for 0 <= x <= 1 (Newton iteration from 1.0)
np_sqrt(x) == IF x = 0 THEN 0 ELSE SqrtIter(x, ONE, 12)

RECURSIVE ExpSeries(_, _, _, _)
ExpSeries(x, term, k, acc) ==
  IF k > 14 \/ term = 0 THEN acc
  ELSE LET t == Sgn(term) * Sgn(x) * (MulU(Abs(term), Abs(x)) \div k)
       IN  ExpSeries(x, t, k + 1, acc + t)

\* np.exp for |x| <= 1 (Taylor series)
np_exp(x) == ExpSeries(x, ONE, 1, ONE)

RECURSIVE AtanhSeries(_, _, _, _)
AtanhSeries(z2, term, k, acc) ==
  IF k > 30 \/ term = 0 THEN acc
  ELSE LET t == Mul(term, z2)
       IN  AtanhSeries(z2, t, k + 1, acc + Sgn(t) * (Abs(t) \div (2 * k + 1)))

\* np.log for 0.4 < x < 2.5: ln x = 2 atanh((x - 1) / (x + 1))
np_log(x) ==
  LET z == Div(x - ONE, x + ONE)
  IN  2 * AtanhSeries(Mul(z, z), z, 1, z)

\* Phi(i / 100) and phi(i / 100) for i = 0 .. 801, in units of 1 / ONE
PhiTab ==
  <<50000000, 50398936, 50797831, 51196647, 51595344, 51993881, 52392218, 52790317,
    53188137, 53585639, 53982784, 54379531, 54775843, 55171679, 55567000, 55961769,
    56355946, 56749493, 57142372, 57534543, 57925971, 58316616, 58706442, 59095412,
    59483487, 59870633, 60256811, 60641987, 61026125, 61409188, 61791142, 62171952,
    62551583, 62930002, 63307174, 63683065, 64057643, 64430875, 64802729, 65173173,
    65542174, 65909703, 66275727, 66640218, 67003145, 67364478, 67724189, 68082249,
    68438630, 68793305, 69146246, 69497427, 69846821, 70194403, 70540148, 70884031,
    71226028, 71566115, 71904269, 72240468, 72574688, 72906910, 73237111, 73565271,
    73891370, 74215389, 74537309, 74857110, 75174777, 75490291, 75803635, 76114793,
    76423750, 76730491, 77035000, 77337265, 77637271, 77935005, 78230456, 78523612,
    78814460, 79102991, 79389195, 79673061, 79954581, 80233746, 80510548, 80784980,
    81057035, 81326706, 81593987, 81858875, 82121362, 82381446, 82639122, 82894387,
    83147239, 83397675, 83645694, 83891294, 84134475, 84375235, 84613577, 84849500,
    85083005, 85314094, 85542770, 85769035, 85992891, 86214343, 86433394, 86650049,
    86864312, 87076189, 87285685, 87492806, 87697560, 87899952, 88099989, 88297680,
    88493033, 88686055, 88876756, 89065145, 89251230, 89435023, 89616532, 89795768,
    89972743, 90147467, 90319952, 90490208, 90658249, 90824086, 90987733, 91149201,
    91308504, 91465655, 91620668, 91773556, 91924334, 92073016, 92219616, 92364149,
    92506630, 92647074, 92785496, 92921912, 93056338, 93188788, 93319280, 93447829,
    93574451, 93699164, 93821982, 93942924, 94062006, 94179244, 94294657, 94408260,
    94520071, 94630107, 94738386, 94844925, 94949742, 95052853, 95154277, 95254032,
    95352134, 95448602, 95543454, 95636706, 95728378, 95818486, 95907049, 95994084,
    96079610, 96163643, 96246202, 96327304, 96406968, 96485211, 96562050, 96637503,
    96711588, 96784323, 96855724, 96925809, 96994596, 97062102, 97128344, 97193339,
    97257105, 97319658, 97381016, 97441194, 97500210, 97558081, 97614824, 97670453,
    97724987, 97778441, 97830831, 97882173, 97932484, 97981778, 98030073, 98077383,
    98123723, 98169110, 98213558, 98257082, 98299698, 98341419, 98382262, 98422239,
    98461367, 98499658, 98537127, 98573788, 98609655, 98644742, 98679062, 98712628,
    98745454, 98777553, 98808937, 98839621, 98869616, 98898934, 98927589, 98955592,
    98982956, 99009692, 99035813, 99061329, 99086253, 99110596, 99134368, 99157581,
    99180246, 99202374, 99223975, 99245059, 99265637, 99285719, 99305315, 99324435,
    99343088, 99361285, 99379033, 99396344, 99413226, 99429687, 99445738, 99461385,
    99476639, 99491507, 99505998, 99520120, 99533881, 99547289, 99560351, 99573076,
    99585470, 99597541, 99609297, 99620744, 99631889, 99642740, 99653303, 99663584,
    99673590, 99683328, 99692804, 99702024, 99710993, 99719719, 99728206, 99736460,
    99744487, 99752293, 99759882, 99767260, 99774432, 99781404, 99788179, 99794764,
    99801162, 99807379, 99813419, 99819286, 99824984, 99830519, 99835894, 99841113,
    99846180, 99851100, 99855876, 99860511, 99865010, 99869376, 99873613, 99877723,
    99881711, 99885579, 99889332, 99892971, 99896500, 99899922, 99903240, 99906456,
    99909574, 99912597, 99915526, 99918365, 99921115, 99923781, 99926362, 99928864,
    99931286, 99933633, 99935905, 99938105, 99940235, 99942297, 99944294, 99946226,
    99948096, 99949906, 99951658, 99953352, 99954991, 99956577, 99958111, 99959594,
    99961029, 99962416, 99963757, 99965054, 99966307, 99967519, 99968689, 99969821,
    99970914, 99971971, 99972991, 99973977, 99974929, 99975849, 99976737, 99977595,
    99978423, 99979222, 99979994, 99980738, 99981457, 99982151, 99982820, 99983466,
    99984089, 99984690, 99985270, 99985829, 99986368, 99986888, 99987389, 99987872,
    99988338, 99988787, 99989220, 99989637, 99990039, 99990426, 99990799, 99991158,
    99991504, 99991838, 99992159, 99992468, 99992765, 99993052, 99993327, 99993593,
    99993848, 99994094, 99994331, 99994558, 99994777, 99994988, 99995190, 99995385,
    99995573, 99995753, 99995926, 99996092, 99996253, 99996406, 99996554, 99996696,
    99996833, 99996964, 99997090, 99997211, 99997327, 99997439, 99997546, 99997649,
    99997748, 99997843, 99997934, 99998022, 99998106, 99998186, 99998263, 99998338,
    99998409, 99998477, 99998542, 99998605, 99998665, 99998723, 99998778, 99998832,
    99998882, 99998931, 99998978, 99999023, 99999066, 99999107, 99999146, 99999184,
    99999220, 99999254, 99999288, 99999319, 99999350, 99999379, 99999407, 99999433,
    99999459, 99999483, 99999506, 99999529, 99999550, 99999571, 99999590, 99999609,
    99999627, 99999644, 99999660, 99999676, 99999691, 99999705, 99999719, 99999732,
    99999744, 99999756, 99999768, 99999778, 99999789, 99999799, 99999808, 99999817,
    99999826, 99999834, 99999842, 99999849, 99999857, 99999863, 99999870, 99999876,
    99999882, 99999888, 99999893, 99999898, 99999903, 99999908, 99999912, 99999917,
    99999921, 99999925, 99999928, 99999932, 99999935, 99999938, 99999941, 99999944,
    99999947, 99999950, 99999952, 99999954, 99999957, 99999959, 99999961, 99999963,
    99999965, 99999967, 99999968, 99999970, 99999971, 99999973, 99999974, 99999975,
    99999977, 99999978, 99999979, 99999980, 99999981, 99999982, 99999983, 99999984,
    99999985, 99999986, 99999986, 99999987, 99999988, 99999988, 99999989, 99999989,
    99999990, 99999991, 99999991, 99999992, 99999992, 99999992, 99999993, 99999993,
    99999994, 99999994, 99999994, 99999995, 99999995, 99999995, 99999995, 99999996,
    99999996, 99999996, 99999996, 99999996, 99999997, 99999997, 99999997, 99999997,
    99999997, 99999997, 99999998, 99999998, 99999998, 99999998, 99999998, 99999998,
    99999998, 99999998, 99999998, 99999999, 99999999, 99999999, 99999999, 99999999,
    99999999, 99999999, 99999999, 99999999, 99999999, 99999999, 99999999, 99999999,
    99999999, 99999999, 99999999, 99999999, 99999999, 99999999, 100000000, 100000000,
    100000000, 100000000, 100000000, 100000000, 100000000, 100000000, 100000000, 100000000,
    100000000, 100000000, 100000000, 100000000, 100000000, 100000000, 100000000, 100000000,
    100000000, 100000000, 100000000, 100000000, 100000000, 100000000, 100000000, 100000000,
    100000000, 100000000, 100000000, 100000000, 100000000, 100000000, 100000000, 100000000,
    100000000, 100000000, 100000000, 100000000, 100000000, 100000000, 100000000, 100000000,
    100000000, 100000000, 100000000, 100000000, 100000000, 100000000, 100000000, 100000000,
    100000000, 100000000, 100000000, 100000000, 100000000, 100000000, 100000000, 100000000,
    100000000, 100000000, 100000000, 100000000, 100000000, 100000000, 100000000, 100000000,
    100000000, 100000000, 100000000, 100000000, 100000000, 100000000, 100000000, 100000000,
    100000000, 100000000, 100000000, 100000000, 100000000, 100000000, 100000000, 100000000,
    100000000, 100000000, 100000000, 100000000, 100000000, 100000000, 100000000, 100000000,
    100000000, 100000000, 100000000, 100000000, 100000000, 100000000, 100000000, 100000000,
    100000000, 100000000, 100000000, 100000000, 100000000, 100000000, 100000000, 100000000,
    100000000, 100000000, 100000000, 100000000, 100000000, 100000000, 100000000, 100000000,
    100000000, 100000000, 100000000, 100000000, 100000000, 100000000, 100000000, 100000000,
    100000000, 100000000, 100000000, 100000000, 100000000, 100000000, 100000000, 100000000,
    100000000, 100000000, 100000000, 100000000, 100000000, 100000000, 100000000, 100000000,
    100000000, 100000000, 100000000, 100000000, 100000000, 100000000, 100000000, 100000000,
    100000000, 100000000, 100000000, 100000000, 100000000, 100000000, 100000000, 100000000,
    100000000, 100000000, 100000000, 100000000, 100000000, 100000000, 100000000, 100000000,
    100000000, 100000000, 100000000, 100000000, 100000000, 100000000, 100000000, 100000000,
    100000000, 100000000, 100000000, 100000000, 100000000, 100000000, 100000000, 100000000,
    100000000, 100000000, 100000000, 100000000, 100000000, 100000000, 100000000, 100000000,
    100000000, 100000000, 100000000, 100000000, 100000000, 100000000, 100000000, 100000000,
    100000000, 100000000, 100000000, 100000000, 100000000, 100000000, 100000000, 100000000,
    100000000, 100000000, 100000000, 100000000, 100000000, 100000000, 100000000, 100000000,
    100000000, 100000000, 100000000, 100000000, 100000000, 100000000, 100000000, 100000000,
    100000000, 100000000, 100000000, 100000000, 100000000, 100000000, 100000000, 100000000,
    100000000, 100000000>>

pdfTab ==
  <<39894228, 39892233, 39886250, 39876280, 39862325, 39844391, 39822483, 39796607,
    39766771, 39732983, 39695255, 39653597, 39608021, 39558542, 39505174, 39447933,
    39386836, 39321901, 39253148, 39180597, 39104269, 39024188, 38940376, 38852859,
    38761662, 38666812, 38568337, 38466266, 38360629, 38251457, 38138782, 38022635,
    37903053, 37780068, 37653716, 37524035, 37391061, 37254832, 37115388, 36972768,
    36827014, 36678166, 36526267, 36371360, 36213488, 36052696, 35889029, 35722533,
    35553253, 35381237, 35206533, 35029188, 34849251, 34666772, 34481800, 34294386,
    34104579, 33912431, 33717994, 33521320, 33322460, 33121468, 32918396, 32713298,
    32506226, 32297236, 32086380, 31873714, 31659291, 31443166, 31225393, 31006028,
    30785126, 30562741, 30338928, 30113743, 29887241, 29659475, 29430503, 29200378,
    28969155, 28736890, 28503636, 28269448, 28034381, 27798489, 27561825, 27324443,
    27086397, 26847740, 26608525, 26368804, 26128630, 25888055, 25647129, 25405906,
    25164434, 24922765, 24680949, 24439035, 24197072, 23955110, 23713195, 23471376,
    23229700, 22988214, 22746963, 22505994, 22265350, 22025077, 21785218, 21545816,
    21306915, 21068555, 20830779, 20593627, 20357139, 20121354, 19886312, 19652050,
    19418605, 19186015, 18954316, 18723542, 18493728, 18264909, 18037116, 17810384,
    17584743, 17360225, 17136859, 16914676, 16693704, 16473972, 16255506, 16038333,
    15822479, 15607970, 15394829, 15183080, 14972747, 14763850, 14556413, 14350455,
    14145997, 13943057, 13741654, 13541806, 13343530, 13146843, 12951760, 12758295,
    12566464, 12376279, 12187754, 12000900, 11815730, 11632253, 11450480, 11270421,
    11092083, 10915477, 10740608, 10567483, 10396110, 10226492, 10058637, 9892547,
    9728227, 9565680, 9404908, 9245913, 9088698, 8933262, 8779607, 8627732,
    8477636, 8329319, 8182778, 8038011, 7895016, 7753789, 7614327, 7476626,
    7340681, 7206487, 7074039, 6943331, 6814357, 6687109, 6561581, 6437766,
    6315656, 6195242, 6076517, 5959471, 5844094, 5730379, 5618314, 5507890,
    5399097, 5291923, 5186358, 5082390, 4980009, 4879202, 4779957, 4682264,
    4586108, 4491477, 4398360, 4306742, 4216611, 4127953, 4040755, 3955004,
    3870686, 3787786, 3706291, 3626187, 3547459, 3470094, 3394076, 3319392,
    3246027, 3173965, 3103193, 3033696, 2965458, 2898466, 2832704, 2768157,
    2704810, 2642649, 2581658, 2521822, 2463127, 2405557, 2349099, 2293735,
    2239453, 2186237, 2134071, 2082943, 2032836, 1983735, 1935628, 1888498,
    1842331, 1797113, 1752830, 1709467, 1667010, 1625445, 1584758, 1544935,
    1505962, 1467825, 1430511, 1394006, 1358297, 1323370, 1289213, 1255811,
    1223153, 1191224, 1160014, 1129507, 1099694, 1070560, 1042093, 1014283,
    987115, 960580, 934664, 909356, 884645, 860520, 836969, 813981,
    791545, 769651, 748287, 727444, 707110, 687277, 667932, 649068,
    630673, 612738, 595253, 578210, 561598, 545410, 529634, 514264,
    499290, 484703, 470496, 456659, 443185, 430065, 417292, 404858,
    392755, 380976, 369513, 358360, 347508, 336951, 326682, 316694,
    306981, 297537, 288353, 279426, 270748, 262313, 254115, 246149,
    238409, 230889, 223584, 216488, 209597, 202905, 196407, 190097,
    183973, 178027, 172257, 166657, 161223, 155950, 150835, 145873,
    141060, 136393, 131866, 127477, 123222, 119097, 115098, 111223,
    107467, 103828, 100302, 96886, 93577, 90372, 87268, 84263,
    81352, 78534, 75807, 73166, 70611, 68138, 65745, 63430,
    61190, 59024, 56928, 54901, 52941, 51046, 49214, 47443,
    45731, 44077, 42478, 40933, 39440, 37998, 36605, 35260,
    33960, 32705, 31494, 30324, 29195, 28105, 27053, 26037,
    25058, 24113, 23201, 22321, 21473, 20655, 19866, 19105,
    18371, 17664, 16983, 16326, 15693, 15083, 14495, 13928,
    13383, 12858, 12352, 11864, 11395, 10943, 10509, 10090,
    9687, 9299, 8926, 8567, 8222, 7890, 7570, 7263,
    6967, 6683, 6410, 6147, 5894, 5652, 5418, 5194,
    4979, 4772, 4573, 4382, 4199, 4023, 3854, 3691,
    3535, 3386, 3242, 3104, 2972, 2845, 2723, 2606,
    2494, 2387, 2284, 2185, 2090, 1999, 1912, 1829,
    1749, 1672, 1598, 1528, 1461, 1396, 1334, 1275,
    1218, 1164, 1112, 1062, 1014, 968, 925, 883,
    843, 805, 768, 733, 700, 668, 637, 608,
    580, 553, 527, 503, 480, 457, 436, 416,
    396, 378, 360, 343, 327, 311, 296, 282,
    269, 256, 244, 232, 221, 210, 200, 191,
    181, 173, 164, 156, 149, 141, 134, 128,
    122, 116, 110, 105, 99, 94, 90, 85,
    81, 77, 73, 69, 66, 63, 59, 56,
    54, 51, 48, 46, 44, 41, 39, 37,
    35, 33, 32, 30, 29, 27, 26, 24,
    23, 22, 21, 20, 19, 18, 17, 16,
    15, 14, 13, 13, 12, 11, 11, 10,
    10, 9, 9, 8, 8, 7, 7, 7,
    6, 6, 6, 5, 5, 5, 4, 4,
    4, 4, 4, 3, 3, 3, 3, 3,
    2, 2, 2, 2, 2, 2, 2, 2,
    2, 1, 1, 1, 1, 1, 1, 1,
    1, 1, 1, 1, 1, 1, 1, 1,
    1, 1, 1, 1, 0, 0, 0, 0,
    0, 0, 0, 0, 0, 0, 0, 0,
    0, 0, 0, 0, 0, 0, 0, 0,
    0, 0, 0, 0, 0, 0, 0, 0,
    0, 0, 0, 0, 0, 0, 0, 0,
    0, 0, 0, 0, 0, 0, 0, 0,
    0, 0, 0, 0, 0, 0, 0, 0,
    0, 0, 0, 0, 0, 0, 0, 0,
    0, 0, 0, 0, 0, 0, 0, 0,
    0, 0, 0, 0, 0, 0, 0, 0,
    0, 0, 0, 0, 0, 0, 0, 0,
    0, 0, 0, 0, 0, 0, 0, 0,
    0, 0, 0, 0, 0, 0, 0, 0,
    0, 0, 0, 0, 0, 0, 0, 0,
    0, 0, 0, 0, 0, 0, 0, 0,
    0, 0, 0, 0, 0, 0, 0, 0,
    0, 0, 0, 0, 0, 0, 0, 0,
    0, 0, 0, 0, 0, 0, 0, 0,
    0, 0, 0, 0, 0, 0, 0, 0,
    0, 0, 0, 0, 0, 0, 0, 0,
    0, 0, 0, 0, 0, 0, 0, 0,
    0, 0, 0, 0, 0, 0, 0, 0,
    0, 0, 0, 0, 0, 0, 0, 0,
    0, 0, 0, 0, 0, 0, 0, 0,
    0, 0, 0, 0, 0, 0, 0, 0,
    0, 0>>

TABSTEP == ONE \div 100

\* linear interpolation in a table, for x >= 0
Interp(tab, x) ==
  IF x >= DMAX THEN tab[801]
  ELSE LET i == x \div TABSTEP
           f == x % TABSTEP
           d == tab[i + 2] - tab[i + 1]
       IN  tab[i + 1]
             + Sgn(d) * ((((Abs(d) \div 1000) * f) \div 1000)
                          + (((Abs(d) % 1000) * f) \div TABSTEP))

\* scipy.stats.norm.cdf
norm_cdf(x) == IF x >= 0 THEN Interp(PhiTab, x) ELSE ONE - Interp(PhiTab, -x)

\* scipy.stats.norm.pdf
norm_pdf(x) == Interp(pdfTab, Abs(x))

\* round(x, 4): to the nearest multiple of 0.0001, ties to even
round4(x) ==
  LET a   == Abs(x)
      q   == a \div HALFW
      rem == a % HALFW
      up  == rem > 5000 \/ (rem = 5000 /\ q % 2 = 1)
  IN  Sgn(x) * (IF up THEN q + 1 ELSE q) * HALFW

(***************************************************************************)
(* What a call hands back: a returned value or a raised exception          *)
(***************************************************************************)
Value(x) == [kind |-> "return", exc |-> "none", tag |-> "number", num |-> x]

\* the result of a formula that divided by sigma * sqrt(T) = 0 in numpy:
\* +-inf or nan with a RuntimeWarning, never an exception
Degenerate == [kind |-> "return", exc |-> "none", tag |-> "nan_or_inf", num |-> 0]

None == [kind |-> "return", exc |-> "none", tag |-> "None", num |-> 0]

Raise(e) == [kind |-> "raise", exc |-> e, tag |-> "none", num |-> 0]

GreeksValue(m) ==
  [kind |-> "return", exc |-> "none", tag |-> "greeks", num |-> 0, greeks |-> m]

Pending == [kind |-> "pending", exc |-> "none", tag |-> "none", num |-> 0]

(***************************************************************************)
(* src/pricing.py: closed-form prices                                      *)
(***************************************************************************)
\* d1 of the spot model; vol is sigma * np.sqrt(T)
bs_d1(S, K, T, r, sigma, vol) ==
  Div(np_log(Div(S, K)) + Mul(r + (Mul(sigma, sigma) \div 2), T), vol)

\* d1 of the futures model; vol is sigma * np.sqrt(T)
b76_d1(F, K, T, r, sigma, vol) ==
  Div(np_log(Div(F, K)) + Mul(Mul(sigma, sigma) \div 2, T), vol)

black_scholes(S, K, T, r, sigma, option_type) ==
  IF K = 0 THEN Raise("ZeroDivisionError")
  ELSE LET vol == Mul(sigma, np_sqrt(T))
           d1  == bs_d1(S, K, T, r, sigma, vol)
           d2  == d1 - vol
       IN  IF vol = 0
           THEN IF option_type \in {"call", "put"} THEN Degenerate
                ELSE Raise("ValueError")
           ELSE IF option_type = "call"
           THEN Value(Mul(S, norm_cdf(d1))
                        - Mul(Mul(K, np_exp(-Mul(r, T))), norm_cdf(d2)))
           ELSE IF option_type = "put"
           THEN Value(Mul(Mul(K, np_exp(-Mul(r, T))), norm_cdf(-d2))
                        - Mul(S, norm_cdf(-d1)))
           ELSE Raise("ValueError")

\* black_76 whose put forgets the discount factor
black_76_undiscounted_put(F, K, T, r, sigma, option_type) ==
  IF K = 0 THEN Raise("ZeroDivisionError")
  ELSE LET vol == Mul(sigma, np_sqrt(T))
           d1  == b76_d1(F, K, T, r, sigma, vol)
           d2  == d1 - vol
           df  == np_exp(-Mul(r, T))
       IN  IF vol = 0
           THEN IF option_type \in {"call", "put"} THEN Degenerate
                ELSE Raise("ValueError")
           ELSE IF option_type = "call"
           THEN Value(Mul(df, Mul(F, norm_cdf(d1)) - Mul(K, norm_cdf(d2))))
           ELSE IF option_type = "put"
           THEN Value(Mul(K, norm_cdf(-d2)) - Mul(F, norm_cdf(-d1)))
           ELSE Raise("ValueError")

black_76(F, K, T, r, sigma, option_type) ==
  IF K = 0 THEN Raise("ZeroDivisionError")
  ELSE LET vol == Mul(sigma, np_sqrt(T))
           d1  == b76_d1(F, K, T, r, sigma, vol)
           d2  == d1 - vol
           df  == np_exp(-Mul(r, T))
       IN  IF vol = 0
           THEN IF option_type \in {"call", "put"} THEN Degenerate
                ELSE Raise("ValueError")
           ELSE IF option_type = "call"
           THEN Value(Mul(df, Mul(F, norm_cdf(d1)) - Mul(K, norm_cdf(d2))))
           ELSE IF option_type = "put"
           THEN Value(Mul(df, Mul(K, norm_cdf(-d2)) - Mul(F, norm_cdf(-d1))))
           ELSE Raise("ValueError")

\* price_option with an unrecognised model priced as a spot option
price_option_fallback(model, S_or_F, K, T, r, sigma, option_type) ==
  IF model = "futures" THEN black_76(S_or_F, K, T, r, sigma, option_type)
  ELSE black_scholes(S_or_F, K, T, r, sigma, option_type)

price_option(model, S_or_F, K, T, r, sigma, option_type) ==
  IF model = "spot" THEN black_scholes(S_or_F, K, T, r, sigma, option_type)
  ELSE IF model = "futures" THEN black_76(S_or_F, K, T, r, sigma, option_type)
  ELSE Raise("ValueError")

(***************************************************************************)
(* src/pricing.py: Greeks                                                  *)
(***************************************************************************)
\* x / n for a whole number n
DivInt(x, n) == Sgn(x) * (Abs(x) \div n)

\* the five sensitivities of calculate_greeks_bs before rounding
greeks_bs(S, K, T, r, sigma, option_type) ==
  LET sqT   == np_sqrt(T)
      d1    == bs_d1(S, K, T, r, sigma, Mul(sigma, sqT))
      d2    == d1 - Mul(sigma, sqT)
      disc  == np_exp(-Mul(r, T))
      front == Div(Mul(Mul(-S, norm_pdf(d1)), sigma), 2 * sqT)
  IN  [Delta |-> IF option_type = "call" THEN norm_cdf(d1)
                 ELSE norm_cdf(d1) - ONE,
       Theta |-> IF option_type = "call"
                 THEN DivInt(front - Mul(Mul(Mul(r, K), disc), norm_cdf(d2)), 365)
                 ELSE DivInt(front + Mul(Mul(Mul(r, K), disc), norm_cdf(-d2)), 365),
       Rho   |-> IF option_type = "call"
                 THEN DivInt(Mul(Mul(Mul(K, T), disc), norm_cdf(d2)), 100)
                 ELSE DivInt(Mul(Mul(Mul(-K, T), disc), norm_cdf(-d2)), 100),
       Gamma |-> Div(norm_pdf(d1), Mul(Mul(S, sigma), sqT)),
       Vega  |-> DivInt(Mul(Mul(S, norm_pdf(d1)), sqT), 100)]

\* calculate_greeks_bs that returns Theta as computed, without round(., 4)
calculate_greeks_bs_raw_theta(S, K, T, r, sigma, option_type) ==
  IF K = 0 THEN Raise("ZeroDivisionError")
  ELSE IF option_type \notin {"call", "put"} THEN Raise("ValueError")
  ELSE IF Mul(sigma, np_sqrt(T)) = 0 THEN Degenerate
  ELSE LET g == greeks_bs(S, K, T, r, sigma, option_type)
       IN  GreeksValue([Delta |-> round4(g.Delta), Gamma |-> round4(g.Gamma),
                        Vega |-> round4(g.Vega), Theta |-> g.Theta,
                        Rho |-> round4(g.Rho)])

calculate_greeks_bs(S, K, T, r, sigma, option_type) ==
  IF K = 0 THEN Raise("ZeroDivisionError")
  ELSE IF option_type \notin {"call", "put"} THEN Raise("ValueError")
  ELSE IF Mul(sigma, np_sqrt(T)) = 0 THEN Degenerate
  ELSE LET g == greeks_bs(S, K, T, r, sigma, option_type)
       IN  GreeksValue([Delta |-> round4(g.Delta), Gamma |-> round4(g.Gamma),
                        Vega |-> round4(g.Vega), Theta |-> round4(g.Theta),
                        Rho |-> round4(g.Rho)])

\* the five sensitivities of calculate_greeks_black76 before rounding
greeks_black76(F, K, T, r, sigma, option_type) ==
  LET sqT   == np_sqrt(T)
      d1    == b76_d1(F, K, T, r, sigma, Mul(sigma, sqT))
      d2    == d1 - Mul(sigma, sqT)
      df    == np_exp(-Mul(r, T))
      front == Div(Mul(Mul(Mul(-F, norm_pdf(d1)), sigma), df), 2 * sqT)
  IN  [Gamma |-> Div(norm_pdf(d1), Mul(Mul(F, sigma), sqT)),
       Vega  |-> DivInt(Mul(Mul(Mul(F, norm_pdf(d1)), sqT), df), 100),
       Delta |-> IF option_type = "call" THEN Mul(df, norm_cdf(d1))
                 ELSE Mul(-df, norm_cdf(-d1)),
       Rho   |-> IF option_type = "call"
                 THEN DivInt(Mul(Mul(Mul(T, K), df), norm_cdf(d2)), 100)
                 ELSE DivInt(Mul(Mul(Mul(-T, K), df), norm_cdf(-d2)), 100),
       Theta |-> IF option_type = "call"
                 THEN DivInt(front - Mul(Mul(Mul(r, F), norm_cdf(d1)), df), 365)
                 ELSE DivInt(front + Mul(Mul(Mul(r, F), norm_cdf(-d1)), df), 365)]

calculate_greeks_black76(F, K, T, r, sigma, option_type) ==
  IF K = 0 THEN Raise("ZeroDivisionError")
  ELSE IF option_type \notin {"call", "put"} THEN Raise("ValueError")
  ELSE IF Mul(sigma, np_sqrt(T)) = 0 THEN Degenerate
  ELSE LET g == greeks_black76(F, K, T, r, sigma, option_type)
       IN  GreeksValue([Delta |-> round4(g.Delta), Gamma |-> round4(g.Gamma),
                        Vega |-> round4(g.Vega), Theta |-> round4(g.Theta),
                        Rho |-> round4(g.Rho)])

calculate_greeks(model, S_or_F, K, T, r, sigma, option_type) ==
  IF model = "spot" THEN calculate_greeks_bs(S_or_F, K, T, r, sigma, option_type)
  ELSE IF model = "futures"
  THEN calculate_greeks_black76(S_or_F, K, T, r, sigma, option_type)
  ELSE Raise("ValueError")

(***************************************************************************)
(* src/pricing.py: implied volatility                                      *)
(***************************************************************************)
\* the volatility bracket handed to brentq: 0.0001 and 3.0
SIGMA_LO == ONE \div 10000

SIGMA_HI == 3 * ONE

\* brentq's default iteration budget
maxiter == 100

\* objective_function of the futures variant calling the spot pricer
objective_function_spot_only(model, market_price, S, K, T, r, option_type, sigma) ==
  black_scholes(S, K, T, r, sigma, option_type).num - market_price

\* objective_function(sigma) of either variant: model price minus market price
objective_function(model, market_price, S, K, T, r, option_type, sigma) ==
  IF model = "spot"
  THEN black_scholes(S, K, T, r, sigma, option_type).num - market_price
  ELSE black_76(S, K, T, r, sigma, option_type).num - market_price

\* the bracketing iteration: f(lo) and f(hi) have opposite signs throughout;
\* it stops on an exact zero or when the bracket is one unit wide and hands
\* back the end with the smaller residual
RECURSIVE Bisect(_, _, _, _, _, _, _, _, _, _, _, _)
Bisect(model, mp, S, K, T, r, ot, lo, hi, flo, fhi, n) ==
  IF hi - lo <= 1 \/ n = 0
  THEN IF Abs(flo) <= Abs(fhi) THEN lo ELSE hi
  ELSE LET mid == (lo + hi) \div 2
           fm  == objective_function(model, mp, S, K, T, r, ot, mid)
       IN  IF fm = 0 THEN mid
           ELSE IF (fm < 0) = (flo < 0)
           THEN Bisect(model, mp, S, K, T, r, ot, mid, hi, fm, fhi, n - 1)
           ELSE Bisect(model, mp, S, K, T, r, ot, lo, mid, flo, fm, n - 1)

\* scipy.optimize.brentq(objective_function, a, b): a zero at an end is
\* returned at once, ends of equal sign raise ValueError, an iteration that
\* runs out of its budget raises RuntimeError.  Whether the library's own
\* iteration converges in time is not decided by this repository: converges
\* is the library's answer for the call.
brentq(model, mp, S, K, T, r, ot, a, b, converges) ==
  LET fa == objective_function(model, mp, S, K, T, r, ot, a)
      fb == objective_function(model, mp, S, K, T, r, ot, b)
  IN  IF fa = 0 THEN [kind |-> "root", x |-> a]
      ELSE IF fb = 0 THEN [kind |-> "root", x |-> b]
      ELSE IF (fa < 0) = (fb < 0) THEN [kind |-> "ValueError", x |-> 0]
      ELSE IF ~converges THEN [kind |-> "RuntimeError", x |-> 0]
      ELSE [kind |-> "root",
            x |-> Bisect(model, mp, S, K, T, r, ot, a, b, fa, fb, maxiter)]

\* the price at one end of the bracket, by the variant's own pricing function
test_price(model, S, K, T, r, sigma, option_type) ==
  IF model = "spot" THEN black_scholes(S, K, T, r, sigma, option_type)
  ELSE black_76(S, K, T, r, sigma, option_type)

\* `except ValueError`: the one exception class the try block converts
Caught(res) == res.kind = "raise" /\ res.exc = "ValueError"

\* the bracket test with its upper half left out
OutsideBracket_lower_only(test_low, mp, test_high) ==
  \/ test_low.tag # "number"
  \/ test_high.tag # "number"
  \/ ~(test_low.num <= mp)

\* not (test_low <= option_market_price <= test_high); a nan end compares False
OutsideBracket(test_low, mp, test_high) ==
  \/ test_low.tag # "number"
  \/ test_high.tag # "number"
  \/ ~(test_low.num <= mp /\ mp <= test_high.num)

\* what the try block makes of the root finder's outcome
AfterBrentq(out) ==
  IF out.kind = "root" THEN Value(round4(out.x))
  ELSE IF out.kind = "ValueError" THEN None
  ELSE Raise(out.kind)

\* implied_volatility and implied_volatility_black76 (same body, other pricer)
implied_volatility_of(model, mp, S, K, T, r, ot, converges) ==
  LET test_low  == test_price(model, S, K, T, r, SIGMA_LO, ot)
      test_high == test_price(model, S, K, T, r, SIGMA_HI, ot)
  IN  IF test_low.kind = "raise"
      THEN IF Caught(test_low) THEN None ELSE test_low
      ELSE IF OutsideBracket(test_low, mp, test_high) THEN None
      ELSE AfterBrentq(brentq(model, mp, S, K, T, r, ot, SIGMA_LO, SIGMA_HI, converges))

implied_volatility(mp, S, K, T, r, ot, converges) ==
  implied_volatility_of("spot", mp, S, K, T, r, ot, converges)

implied_volatility_black76(mp, F, K, T, r, ot, converges) ==
  implied_volatility_of("futures", mp, F, K, T, r, ot, converges)

get_implied_volatility(model, market_price, S_or_F, K, T, r, option_type, converges) ==
  IF model = "spot"
  THEN implied_volatility(market_price, S_or_F, K, T, r, option_type, converges)
  ELSE IF model = "futures"
  THEN implied_volatility_black76(market_price, S_or_F, K, T, r, option_type, converges)
  ELSE Raise("ValueError")

(***************************************************************************)
(* Callers of the pricing core.  pricing.py has no module-level state: the *)
(* parameters and locals of a call live in the frame of that call.         *)
(***************************************************************************)
NCallers == 2

Callers == 1 .. NCallers

\* parameters and locals kept in one module-level slot shared by all calls
FrameOf_shared(c) == 1

\* the frame a caller's call runs in: one per call
FrameOf(c) == c

Args(fn, model, S, K, T, r, sigma, option_type, market_price, converges) ==
  [fn |-> fn, model |-> model, S |-> S, K |-> K, T |-> T, r |-> r,
   sigma |-> sigma, option_type |-> option_type,
   market_price |-> market_price, converges |-> converges]

NoArgs == Args("none", "none", 0, 0, 0, 0, 0, "none", 0, TRUE)

NoLocals == [test_low |-> Pending, test_high |-> Pending]

\* inputs
ModelSet == {"spot", "futures", "forward"}

TypeSet == {"call", "put", "straddle"}

SSet == {ONE, 110000000}

\* 0.0 is a strike the front end's number_input accepts
KSet == {0, ONE}

\* 30 / 365 and 0.25 years
TSet == {8219178, 25000000}

RSet == {0, 10000000}

SigmaSet == {50000, 20000000, 300000000}

GreeksSigmaSet == {20000000, 300000000}

\* volatilities whose price is fed back to the solver
Sigma0Set == {10000, 50000, 20000000, 20003330, 300000000}

\* market prices below and above every model price
FixedMarketPrices == {0, 5 * ONE}

MarketPrices(model, S, K, T, r, option_type) ==
  FixedMarketPrices
    \cup {price_option(model, S, K, T, r, s0, option_type).num : s0 \in Sigma0Set}

PriceCalls ==
  {Args("price", m, S, K, T, r, sg, ot, 0, TRUE) :
     m \in ModelSet, S \in SSet, K \in KSet, T \in TSet, r \in RSet,
     sg \in SigmaSet, ot \in TypeSet}

GreeksCalls ==
  {Args("greeks", m, S, K, T, r, sg, ot, 0, TRUE) :
     m \in ModelSet, S \in SSet, K \in KSet, T \in TSet, r \in RSet,
     sg \in GreeksSigmaSet, ot \in TypeSet}

IvCalls ==
  UNION {{Args("iv", m, S, K, T, r, 0, ot, mp, cv) :
            mp \in MarketPrices(m, S, K, T, r, ot), cv \in BOOLEAN} :
         m \in ModelSet, S \in SSet, K \in KSet, T \in TSet, r \in RSet,
         ot \in TypeSet}

\* the few calls the concurrent callers choose from
ConcCalls ==
  {Args("price", "spot", ONE, ONE, 8219178, 10000000, 20000000, "call", 0, TRUE),
   Args("greeks", "spot", ONE, ONE, 8219178, 10000000, 20000000, "put", 0, TRUE),
   Args("iv", "spot", ONE, ONE, 8219178, 10000000, 0, "call", 2710422, TRUE),
   Args("iv", "futures", ONE, ONE, 8219178, 10000000, 0, "put", 5 * ONE, TRUE)}

(***************************************************************************)
(* The front end's form (src/streamlit_App.py)                             *)
(***************************************************************************)
MaxPositions == 2

NoForm ==
  [instrument |-> "stocks", option_type |-> "call", S_or_F |-> ONE, K |-> ONE,
   r |-> 0, days |-> 30, market_price |-> 0, vol_input |-> 20000000,
   converges |-> TRUE]

InitApp ==
  /\ appPc = "form"
  /\ form = NoForm
  /\ appSigma = [set |-> FALSE, val |-> 0]
  /\ appIv = Pending
  /\ engineCalls = <<>>
  /\ positions = 0

InitEngines ==
  /\ pc = [c \in Callers |-> "idle"]
  /\ calls = [c \in Callers |-> NoArgs]
  /\ frame = [c \in Callers |-> NoArgs]
  /\ locals = [c \in Callers |-> NoLocals]
  /\ result = [c \in Callers |-> Pending]
  /\ brentqCalls = [c \in Callers |-> 0]

Init == InitEngines /\ InitApp

appVars == <<appPc, form, appSigma, appIv, engineCalls, positions>>

engineVars == <<pc, calls, frame, locals, result, brentqCalls>>

(***************************************************************************)
(* One engine call, step by step                                           *)
(***************************************************************************)
\* the caller passes its arguments: they are bound in the call's frame
Call(c, a) ==
  /\ pc[c] = "idle"
  /\ calls' = [calls EXCEPT ![c] = a]
  /\ frame' = [frame EXCEPT ![FrameOf(c)] = a]
  /\ locals' = [locals EXCEPT ![FrameOf(c)] = NoLocals]
  /\ brentqCalls' = [brentqCalls EXCEPT ![c] = 0]
  /\ result' = [result EXCEPT ![c] = Pending]
  /\ pc' = [pc EXCEPT ![c] = a.fn]
  /\ UNCHANGED appVars

CallPrice(c) == \E a \in PriceCalls : Call(c, a)

CallGreeks(c) == \E a \in GreeksCalls : Call(c, a)

CallImpliedVol(c) == \E a \in IvCalls : Call(c, a)

CallConc(c) == \E a \in ConcCalls : Call(c, a)

Done(c, res) ==
  /\ result' = [result EXCEPT ![c] = res]
  /\ pc' = [pc EXCEPT ![c] = "done"]

\* price_option runs on the parameters bound in its frame
RunPrice(c) ==
  /\ pc[c] = "price"
  /\ LET f == frame[FrameOf(c)]
     IN  Done(c, price_option(f.model, f.S, f.K, f.T, f.r, f.sigma, f.option_type))
  /\ UNCHANGED <<calls, frame, locals, brentqCalls>>
  /\ UNCHANGED appVars

RunGreeks(c) ==
  /\ pc[c] = "greeks"
  /\ LET f == frame[FrameOf(c)]
     IN  Done(c, calculate_greeks(f.model, f.S, f.K, f.T, f.r, f.sigma, f.option_type))
  /\ UNCHANGED <<calls, frame, locals, brentqCalls>>
  /\ UNCHANGED appVars

\* get_implied_volatility: dispatch on model
IvDispatch(c) ==
  /\ pc[c] = "iv"
  /\ IF frame[FrameOf(c)].model \in {"spot", "futures"}
     THEN /\ pc' = [pc EXCEPT ![c] = "iv_try"]
          /\ UNCHANGED result
     ELSE Done(c, Raise("ValueError"))
  /\ UNCHANGED <<calls, frame, locals, brentqCalls>>
  /\ UNCHANGED appVars

\* try: test_low = price(0.0001); test_high = price(3.0)
IvTest(c) ==
  /\ pc[c] = "iv_try"
  /\ LET f  == frame[FrameOf(c)]
         lo == test_price(f.model, f.S, f.K, f.T, f.r, SIGMA_LO, f.option_type)
         hi == test_price(f.model, f.S, f.K, f.T, f.r, SIGMA_HI, f.option_type)
     IN  IF lo.kind = "raise"
         THEN /\ Done(c, IF Caught(lo) THEN None ELSE lo)
              /\ UNCHANGED locals
         ELSE /\ locals' = [locals EXCEPT ![FrameOf(c)] =
                               [test_low |-> lo, test_high |-> hi]]
              /\ pc' = [pc EXCEPT ![c] = "iv_tested"]
              /\ UNCHANGED result
  /\ UNCHANGED <<calls, frame, brentqCalls>>
  /\ UNCHANGED appVars

\* if not (test_low <= option_market_price <= test_high): return None
IvBracket(c) ==
  /\ pc[c] = "iv_tested"
  /\ LET f == frame[FrameOf(c)]
         l == locals[FrameOf(c)]
     IN  IF OutsideBracket(l.test_low, f.market_price, l.test_high)
         THEN Done(c, None)
         ELSE /\ pc' = [pc EXCEPT ![c] = "iv_brentq"]
              /\ UNCHANGED result
  /\ UNCHANGED <<calls, frame, locals, brentqCalls>>
  /\ UNCHANGED appVars

\* implied_vol = brentq(objective_function, 0.0001, 3.0); return round(., 4)
IvBrentq(c) ==
  /\ pc[c] = "iv_brentq"
  /\ LET f == frame[FrameOf(c)]
     IN  Done(c, AfterBrentq(brentq(f.model, f.market_price, f.S, f.K, f.T, f.r,
                                    f.option_type, SIGMA_LO, SIGMA_HI, f.converges)))
  /\ brentqCalls' = [brentqCalls EXCEPT ![c] = @ + 1]
  /\ UNCHANGED <<calls, frame, locals>>
  /\ UNCHANGED appVars

\* the caller has its result (or its exception); the frame is gone
Finish(c) ==
  /\ pc[c] = "done"
  /\ pc' = [pc EXCEPT ![c] = "idle"]
  /\ calls' = [calls EXCEPT ![c] = NoArgs]
  /\ result' = [result EXCEPT ![c] = Pending]
  /\ brentqCalls' = [brentqCalls EXCEPT ![c] = 0]
  /\ frame' = [frame EXCEPT ![FrameOf(c)] = NoArgs]
  /\ locals' = [locals EXCEPT ![FrameOf(c)] = NoLocals]
  /\ UNCHANGED appVars

Step(c) ==
  \/ RunPrice(c)
  \/ RunGreeks(c)
  \/ IvDispatch(c)
  \/ IvTest(c)
  \/ IvBracket(c)
  \/ IvBrentq(c)
  \/ Finish(c)

\* one caller, every input
Next ==
  \/ CallPrice(1)
  \/ CallGreeks(1)
  \/ CallImpliedVol(1)
  \/ Step(1)

Spec == Init /\ [][Next]_vars

\* several independent callers, interleaved step by step
NextConc == \E c \in Callers : CallConc(c) \/ Step(c)

SpecConc == Init /\ [][NextConc]_vars

(***************************************************************************)
(* src/streamlit_App.py: the Calculate handler                             *)
(***************************************************************************)
\* what the widgets let the user enter (selectboxes offer only valid enums;
\* every number_input has min_value=0.0)
FormInputs ==
  [instrument : {"stocks", "futures"}, option_type : {"call", "put"},
   S_or_F : {ONE}, K : KSet, r : {10000000}, days : {-1, 0, 30},
   market_price : {0, 2710422, 5 * ONE}, vol_input : {0, 20000000},
   converges : BOOLEAN]

\* T = (expiry_date - today).days / 365
AppT(days) == Sgn(days) * ((Abs(days) * (ONE \div 5)) \div 73)

\* use_iv = market_price > 0
use_iv(f) == f.market_price > 0

\* model_type = "spot" if instrument == "stocks" else "futures"
model_type(f) == IF f.instrument = "stocks" THEN "spot" ELSE "futures"

\* the volatility the script holds before the button is looked at: None when
\* the implied volatility is to be used, the number_input's value otherwise
WidgetSigma(f) ==
  IF use_iv(f) THEN [set |-> FALSE, val |-> 0]
  ELSE [set |-> TRUE, val |-> f.vol_input]

\* `if iv:` - None and 0.0 are falsy
Truthy(iv) == iv.tag = "number" /\ iv.num # 0

DEFAULT_VOL == 20000000

EngineCall(fn, T, sigma, res) ==
  [fn |-> fn, T |-> T, sigma |-> sigma, outcome |-> res.kind]

\* the user fills the form and presses Calculate; T <= 0 ends in st.error
Calculate ==
  /\ appPc = "form"
  /\ positions < MaxPositions
  /\ \E f \in FormInputs :
       /\ form' = f
       /\ appSigma' = WidgetSigma(f)
       /\ appPc' = IF AppT(f.days) <= 0 THEN "expired" ELSE "results"
  /\ appIv' = Pending
  /\ engineCalls' = <<>>
  /\ UNCHANGED positions
  /\ UNCHANGED engineVars

\* sigma = iv if iv else 0.2 (an exception of the solver ends the script run)
AppUseIv(T, iv) ==
  /\ appIv' = iv
  /\ engineCalls' = Append(engineCalls, EngineCall("iv", T, 0, iv))
  /\ IF iv.kind = "raise"
     THEN /\ appPc' = "crashed"
          /\ UNCHANGED appSigma
     ELSE /\ appPc' = "price"
          /\ appSigma' = [set |-> TRUE,
                          val |-> IF Truthy(iv) THEN iv.num ELSE DEFAULT_VOL]

\* if use_iv: iv = get_implied_volatility(...); sigma = iv if iv else 0.2
AppImpliedVol ==
  /\ appPc = "results"
  /\ IF use_iv(form)
     THEN AppUseIv(AppT(form.days),
                   get_implied_volatility(model_type(form), form.market_price,
                     form.S_or_F, form.K, AppT(form.days), form.r,
                     form.option_type, form.converges))
     ELSE /\ appPc' = "price"
          /\ UNCHANGED <<appIv, appSigma, engineCalls>>
  /\ UNCHANGED <<form, positions>>
  /\ UNCHANGED engineVars

\* the script goes on with the engine's result, or stops on its exception
AppResult(fn, T, res, next) ==
  /\ engineCalls' = Append(engineCalls, EngineCall(fn, T, appSigma.val, res))
  /\ appPc' = IF res.kind = "raise" THEN "crashed" ELSE next

\* model_price = price_option(model=model_type, ..., sigma=sigma, ...)
AppPrice ==
  /\ appPc = "price"
  /\ AppResult("price", AppT(form.days),
               price_option(model_type(form), form.S_or_F, form.K,
                            AppT(form.days), form.r, appSigma.val,
                            form.option_type),
               "greeks")
  /\ UNCHANGED <<form, appSigma, appIv, positions>>
  /\ UNCHANGED engineVars

\* greeks = calculate_greeks(model=model_type, ..., sigma=sigma, ...)
AppGreeks ==
  /\ appPc = "greeks"
  /\ AppResult("greeks", AppT(form.days),
               calculate_greeks(model_type(form), form.S_or_F, form.K,
                                AppT(form.days), form.r, appSigma.val,
                                form.option_type),
               "store")
  /\ UNCHANGED <<form, appSigma, appIv, positions>>
  /\ UNCHANGED engineVars

\* st.session_state.positions.append(position)
AppStore ==
  /\ appPc = "store"
  /\ positions' = positions + 1
  /\ appPc' = "form"
  /\ UNCHANGED <<form, appSigma, appIv, engineCalls>>
  /\ UNCHANGED engineVars

\* after st.error or an uncaught exception the page waits for the next input
AppRerun ==
  /\ appPc \in {"expired", "crashed"}
  /\ appPc' = "form"
  /\ UNCHANGED <<form, appSigma, appIv, engineCalls, positions>>
  /\ UNCHANGED engineVars

\* the "Clear All Positions" button
ClearAll ==
  /\ appPc = "form"
  /\ positions > 0
  /\ positions' = 0
  /\ UNCHANGED <<appPc, form, appSigma, appIv, engineCalls>>
  /\ UNCHANGED engineVars

NextApp ==
  \/ Calculate
  \/ AppImpliedVol
  \/ AppPrice
  \/ AppGreeks
  \/ AppStore
  \/ AppRerun
  \/ ClearAll

SpecApp == Init /\ [][NextApp]_vars

(***************************************************************************)
(* Properties                                                              *)
(***************************************************************************)
ValidEnums(a) == a.model \in {"spot", "futures"} /\ a.option_type \in {"call", "put"}

\* S_or_F > 0, K > 0, T > 0
ValidContract(a) == a.S > 0 /\ a.K > 0 /\ a.T > 0

Finished(c, fn) == pc[c] = "done" /\ calls[c].fn = fn

PriceAt(a, sigma) == price_option(a.model, a.S, a.K, a.T, a.r, sigma, a.option_type)

\* 1e-4, the rounding step of implied volatilities and Greeks
ROUND_STEP == ONE \div 10000

\* 1e-6
PARITY_TOL == ONE \div 1000000

\* C1: a Price or Greeks call with valid numbers whose option_type is not
\* call/put or whose model is not spot/futures ends in a raised ValueError,
\* never in a returned value.
C1_InvalidEnumRaises ==
  \A c \in Callers :
    (/\ pc[c] = "done"
     /\ calls[c].fn \in {"price", "greeks"}
     /\ ValidContract(calls[c])
     /\ calls[c].sigma > 0
     /\ ~ValidEnums(calls[c]))
    => (result[c].kind = "raise" /\ result[c].exc = "ValueError")

C1_Witness ==
  \E c \in Callers :
    /\ Finished(c, "greeks")
    /\ ValidContract(calls[c])
    /\ calls[c].model = "futures"
    /\ calls[c].option_type = "straddle"
    /\ result[c] = Raise("ValueError")

\* C2: in the implied-volatility entry point an unrecognised option_type or
\* model is never turned into "not found": the call ends in a raised error.
C2_InvalidArgumentPropagates ==
  \A c \in Callers :
    (Finished(c, "iv") /\ ValidContract(calls[c]) /\ ~ValidEnums(calls[c]))
    => result[c].kind = "raise"

\* C3: for a recognised model and option_type the solver returns a volatility
\* rounded to 4 decimals or "not found"; it never lets an exception out, also
\* not when the root finder fails.
C3_SolverNeverRaises ==
  \A c \in Callers :
    (Finished(c, "iv") /\ ValidEnums(calls[c]))
    => /\ result[c].kind = "return"
       /\ \/ result[c] = None
          \/ (result[c].tag = "number" /\ result[c].num % ROUND_STEP = 0)

\* C4: the solver prices the two ends of the bracket first; a market price
\* below the price at 0.0001 or above the price at 3.0 gives "not found"
\* without the root finder ever being invoked, and the root finder runs only
\* with price_lo <= market_price <= price_hi.
C4_BracketGate ==
  \A c \in Callers :
    (calls[c].fn = "iv" /\ ValidEnums(calls[c]) /\ ValidContract(calls[c]))
    => LET a        == calls[c]
           price_lo == PriceAt(a, SIGMA_LO).num
           price_hi == PriceAt(a, SIGMA_HI).num
           inside   == price_lo <= a.market_price /\ a.market_price <= price_hi
       IN  /\ pc[c] \in {"iv_tested", "iv_brentq"}
                => /\ locals[FrameOf(c)].test_low = PriceAt(a, SIGMA_LO)
                   /\ locals[FrameOf(c)].test_high = PriceAt(a, SIGMA_HI)
           /\ pc[c] = "iv_brentq" => inside
           /\ brentqCalls[c] > 0 => inside
           /\ (pc[c] = "done" /\ ~inside)
                => (result[c] = None /\ brentqCalls[c] = 0)

C4_Witness ==
  \E c \in Callers :
    /\ Finished(c, "iv")
    /\ ValidEnums(calls[c])
    /\ ValidContract(calls[c])
    /\ calls[c].market_price > PriceAt(calls[c], SIGMA_HI).num
    /\ result[c] = None
    /\ brentqCalls[c] = 0

\* half the rounding step of the returned volatility
HSTEP == ROUND_STEP \div 2

\* the computed price tells sigma0 from the volatilities half a rounding step
\* below and above it (where those lie in the bracket)
Sensitive(a, sigma0) ==
  /\ sigma0 - HSTEP >= SIGMA_LO
       => PriceAt(a, sigma0 - HSTEP).num < PriceAt(a, sigma0).num
  /\ sigma0 + HSTEP <= SIGMA_HI
       => PriceAt(a, sigma0).num < PriceAt(a, sigma0 + HSTEP).num

RoundTripCall(c, sigma0) ==
  /\ Finished(c, "iv")
  /\ ValidEnums(calls[c])
  /\ ValidContract(calls[c])
  /\ calls[c].market_price = PriceAt(calls[c], sigma0).num

Within(x, y, tol) == Abs(x - y) <= tol

ParityGap(a) ==
  IF a.model = "spot" THEN a.S - Mul(a.K, np_exp(-Mul(a.r, a.T)))
  ELSE Mul(np_exp(-Mul(a.r, a.T)), a.S - a.K)

Counterpart(a) ==
  price_option(a.model, a.S, a.K, a.T, a.r, a.sigma,
               IF a.option_type = "call" THEN "put" ELSE "call")

\* C6: put-call parity.  For the same (S or F, K, T, r, sigma) the call price
\* minus the put price is S - K exp(-rT) (spot) or exp(-rT) (F - K) (futures)
\* within 1e-6.
C6_PutCallParity ==
  \A c \in Callers :
    (/\ Finished(c, "price")
     /\ ValidEnums(calls[c])
     /\ ValidContract(calls[c])
     /\ calls[c].sigma > 0)
    => LET a    == calls[c]
           mine == result[c].num
           them == Counterpart(a).num
           gap  == IF a.option_type = "call" THEN mine - them ELSE them - mine
       IN  /\ result[c].tag = "number"
           /\ Within(gap, ParityGap(a), PARITY_TOL)

C6_Witness ==
  \E c \in Callers :
    /\ Finished(c, "price")
    /\ calls[c].model = "futures"
    /\ calls[c].option_type = "put"
    /\ calls[c].K > 0
    /\ calls[c].S # calls[c].K
    /\ calls[c].r > 0
    /\ result[c].tag = "number"
    /\ result[c].num > 0

GreekKeys == {"Delta", "Gamma", "Vega", "Theta", "Rho"}

UnroundedGreeks(a) ==
  IF a.model = "spot"
  THEN greeks_bs(a.S, a.K, a.T, a.r, a.sigma, a.option_type)
  ELSE greeks_black76(a.S, a.K, a.T, a.r, a.sigma, a.option_type)

\* C7: a successful Greeks call returns a mapping with exactly the keys Delta,
\* Gamma, Vega, Theta, Rho, each value being the sensitivity rounded to 4
\* decimal places.
C7_GreeksKeysAndRounding ==
  \A c \in Callers :
    (Finished(c, "greeks") /\ result[c].kind = "return")
    => /\ result[c].tag = "greeks"
       /\ DOMAIN result[c].greeks = GreekKeys
       /\ \A k \in GreekKeys :
            /\ result[c].greeks[k] % ROUND_STEP = 0
            /\ 2 * Abs(result[c].greeks[k] - UnroundedGreeks(calls[c])[k]) <= ROUND_STEP

C7_Witness ==
  \E c \in Callers :
    /\ Finished(c, "greeks")
    /\ calls[c].model = "spot"
    /\ result[c].kind = "return"
    /\ UnroundedGreeks(calls[c]).Theta % ROUND_STEP # 0
    /\ result[c].greeks.Theta # 0

\* what the call returns when it is the only call ever made
Alone(a) ==
  IF a.fn = "price"
  THEN price_option(a.model, a.S, a.K, a.T, a.r, a.sigma, a.option_type)
  ELSE IF a.fn = "greeks"
  THEN calculate_greeks(a.model, a.S, a.K, a.T, a.r, a.sigma, a.option_type)
  ELSE get_implied_volatility(a.model, a.market_price, a.S, a.K, a.T, a.r,
                              a.option_type, a.converges)

\* C8: the engines keep no state between calls and share nothing: however the
\* calls of independent callers interleave, each call returns what it returns
\* alone, and calls with the same inputs return the same result.
C8_CallsAreIndependent ==
  /\ \A c \in Callers : pc[c] = "done" => result[c] = Alone(calls[c])
  /\ \A c, d \in Callers :
       (pc[c] = "done" /\ pc[d] = "done" /\ calls[c] = calls[d])
       => result[c] = result[d]

C8_Witness ==
  /\ pc[1] = "done"
  /\ pc[2] = "done"
  /\ calls[1].fn = "iv"
  /\ brentqCalls[1] = 1
  /\ calls[2].fn = "greeks"

\* Theta of the futures model as the spot pattern with F for S and df applied
ThetaMirror(F, K, T, r, sigma, option_type) ==
  LET sqT   == np_sqrt(T)
      d1    == b76_d1(F, K, T, r, sigma, Mul(sigma, sqT))
      d2    == d1 - Mul(sigma, sqT)
      df    == np_exp(-Mul(r, T))
      front == Div(Mul(Mul(Mul(-F, norm_pdf(d1)), sigma), df), 2 * sqT)
  IN  IF option_type = "call"
      THEN DivInt(front - Mul(Mul(Mul(r, K), df), norm_cdf(d2)), 365)
      ELSE DivInt(front + Mul(Mul(Mul(r, K), df), norm_cdf(-d2)), 365)

\* C9: the unrounded Theta calculate_greeks_black76 computes is
\* [-F phi(d1) sigma df / (2 sqrt T) -/+ r K df Phi(+/-d2)] / 365.
C9_FuturesThetaMirrorsSpot ==
  \A c \in Callers :
    (/\ Finished(c, "greeks")
     /\ calls[c].model = "futures"
     /\ result[c].kind = "return")
    => LET a == calls[c]
       IN  greeks_black76(a.S, a.K, a.T, a.r, a.sigma, a.option_type).Theta
             = ThetaMirror(a.S, a.K, a.T, a.r, a.sigma, a.option_type)

\* C10: the Calculate handler reaches price_option and calculate_greeks only
\* with time_to_expiry > 0 and volatility > 0.
C10_HandlerSuppliesPositiveInputs ==
  \A i \in DOMAIN engineCalls :
    engineCalls[i].fn \in {"price", "greeks"}
    => (engineCalls[i].T > 0 /\ engineCalls[i].sigma > 0)

====
